---- MODULE Spec2Model ----
(***************************************************************************)
(* StorageAggregatingMemory: an in-memory table engine that keeps its rows *)
(* as a vector of Blocks behind an atomically swapped shared pointer       *)
(* (storage.data), with a mutex for appends and mutations, two relaxed     *)
(* atomic counters, a parallel reader (MemorySource) and drop/truncate.    *)
(* Every atomic memory operation of the code is one step of the model.     *)
(***************************************************************************)
EXTENDS Integers, Sequences, FiniteSets, TLC

(* ------------------------------ bounds -------------------------------- *)
NumWriters == 2
MaxBlocks == 2
MaxStreams == 2
MaxExtraCalls == 1
MaxOut == 1
NumResets == 1
MaxRejects == 1

Writers == 1..NumWriters
Mutators == {1}
Resetters == 1..NumResets
Scans == {1}
Streams == 1..MaxStreams

(* ------------------------------ blocks -------------------------------- *)
(* A column is its content v, its number of rows and its two byte sizes.  *)
(* A block is a tag src (who produced it) and its named columns, in the   *)
(* order of ColumnOrder.                                                  *)
ColumnOrder == <<"a", "b">>

MkColumn(v, size, bytes, alloc) == [v |-> v, size |-> size, bytes |-> bytes, alloc |-> alloc]

PresentColumns(block) == SelectSeq(ColumnOrder, LAMBDA c : c \in DOMAIN block.cols)

BlockRows(block) ==
    LET present == PresentColumns(block)
    IN  IF present = <<>> THEN 0 ELSE block.cols[present[1]].size

RECURSIVE ColBytes(_, _)
ColBytes(block, names) ==
    IF names = <<>> THEN 0
    ELSE block.cols[Head(names)].bytes + ColBytes(block, Tail(names))

RECURSIVE ColAlloc(_, _)
ColAlloc(block, names) ==
    IF names = <<>> THEN 0
    ELSE block.cols[Head(names)].alloc + ColAlloc(block, Tail(names))

BlockBytes(block) == ColBytes(block, PresentColumns(block))

BlockAllocatedBytes(block) == ColAlloc(block, PresentColumns(block))

RECURSIVE SumRows(_)
SumRows(blocks) ==
    IF blocks = <<>> THEN 0 ELSE BlockRows(Head(blocks)) + SumRows(Tail(blocks))

RECURSIVE SumBytes(_)
SumBytes(blocks) ==
    IF blocks = <<>> THEN 0 ELSE BlockBytes(Head(blocks)) + SumBytes(Tail(blocks))

RECURSIVE SumAllocatedBytes(_)
SumAllocatedBytes(blocks) ==
    IF blocks = <<>> THEN 0
    ELSE BlockAllocatedBytes(Head(blocks)) + SumAllocatedBytes(Tail(blocks))

(* The blocks an INSERT can hand to write(): one or two rows, both        *)
(* columns original (v = 0), with the allocation larger than the size.    *)
InputShapes == {1, 2}
AnyShape == [s \in Writers |-> InputShapes]
OneShape == [s \in Writers |-> {1}]
OwnShape == [s \in Writers |-> {1 + (s % 2)}]
MixedShape == [s \in Writers |-> IF s = 1 THEN {0, 1} ELSE {1}]

InputBlock(s, k, shape) ==
    [src  |-> <<s, k>>,
     cols |-> [c \in {"a", "b"} |->
                 IF c = "a" THEN MkColumn(0, shape, 2 * shape, 2 * shape + 1)
                            ELSE MkColumn(0, shape, shape, shape)]]

(* A block whose structure is not the table's: it lacks column "b".       *)
MismatchedBlock(s, k) ==
    [src |-> <<s, k>>, cols |-> [c \in {"a"} |-> MkColumn(0, 1, 2, 3)]]

(* Shape 0 stands for the mismatched block.                               *)
OfferedBlock(s, k, shape) ==
    IF shape = 0 THEN MismatchedBlock(s, k) ELSE InputBlock(s, k, shape)

(* metadata_snapshot->check(block, true), line 120: the block must have   *)
(* exactly the columns of the table, or the call throws.                  *)
CheckBlock(block) == DOMAIN block.cols = {"a", "b"}

(* ------------------------------- state -------------------------------- *)
VARIABLES
    NDEBUG,                   \* the build: TRUE when assert() is compiled out
    aborted,                  \* the process was terminated (assert or crash)
    data,                     \* storage.data: the published Blocks
    mutex,                    \* storage.mutex: its holder
    total_size_rows,
    total_size_bytes,
    wpc, new_blocks, inserted_rows, inserted_bytes, w_new_data,
    offered,                  \* history: every block handed to write(), accepted or not
    mpc, affects_all, out, m_new_data, m_rows, m_bytes,
    rpc, rkind,
    spc, current_data, size, num_streams, parallel_execution_index, got, empties,
    requested_streams,        \* history: the num_streams argument of read()
    initializer_func,         \* per source: TRUE while it holds a callable
    given_initializer,        \* history: the sources were constructed with one
    calls_log,                \* history: the generate() calls of such a source
    \* history of the run, read by the properties only
    published, finalized, serial, m_before, quiet, pub_at_read, fin_at_read

store == <<data, total_size_rows, total_size_bytes>>
writerVars == <<wpc, new_blocks, inserted_rows, inserted_bytes, w_new_data, offered>>
mutatorVars == <<mpc, affects_all, out, m_new_data, m_rows, m_bytes>>
resetVars == <<rpc, rkind>>
scanVars == <<spc, current_data, size, num_streams, parallel_execution_index, got, empties,
              requested_streams, initializer_func, given_initializer, calls_log>>
histVars == <<published, finalized, serial, m_before, pub_at_read, fin_at_read>>
vars == <<NDEBUG, aborted, store, mutex, writerVars, mutatorVars, resetVars, scanVars,
          histVars, quiet>>

Free == <<"none", 0>>

Init ==
    /\ NDEBUG \in BOOLEAN
    /\ aborted = FALSE
    /\ data = <<>>
    /\ mutex = Free
    /\ total_size_rows = 0
    /\ total_size_bytes = 0
    /\ wpc = [s \in Writers |-> "open"]
    /\ new_blocks = [s \in Writers |-> <<>>]
    /\ inserted_rows = [s \in Writers |-> 0]
    /\ inserted_bytes = [s \in Writers |-> 0]
    /\ w_new_data = [s \in Writers |-> <<>>]
    /\ offered = [s \in Writers |-> <<>>]
    /\ mpc = [m \in Mutators |-> "idle"]
    /\ affects_all = [m \in Mutators |-> FALSE]
    /\ out = [m \in Mutators |-> <<>>]
    /\ m_new_data = [m \in Mutators |-> <<>>]
    /\ m_rows = [m \in Mutators |-> 0]
    /\ m_bytes = [m \in Mutators |-> 0]
    /\ rpc = [t \in Resetters |-> "idle"]
    /\ rkind = [t \in Resetters |-> "none"]
    /\ spc = [s \in Scans |-> "none"]
    /\ current_data = [s \in Scans |-> <<>>]
    /\ size = [s \in Scans |-> 0]
    /\ num_streams = [s \in Scans |-> 0]
    /\ parallel_execution_index = [s \in Scans |-> 0]
    /\ got = [s \in Scans |-> <<>>]
    /\ empties = [s \in Scans |-> [w \in Streams |-> 0]]
    /\ requested_streams = [s \in Scans |-> 0]
    /\ initializer_func = [s \in Scans |-> [w \in Streams |-> FALSE]]
    /\ given_initializer = [s \in Scans |-> FALSE]
    /\ calls_log = [s \in Scans |-> [w \in Streams |-> <<>>]]
    /\ published = <<>>
    /\ finalized = <<>>
    /\ serial = <<>>
    /\ m_before = [m \in Mutators |-> <<>>]
    /\ quiet = [t \in Resetters |-> TRUE]
    /\ pub_at_read = [s \in Scans |-> <<>>]
    /\ fin_at_read = [s \in Scans |-> <<>>]


(* ----------------------- history bookkeeping -------------------------- *)
Finalizing == {"locked", "copied", "set", "added_bytes"}
Mutating == {"locked", "executed", "merged", "stored_bytes", "stored_rows", "aborted"}
Resetting == {"set", "stored_bytes"}

OtherWriterRunning(t) ==
    \/ \E s \in Writers : wpc[s] \in Finalizing
    \/ \E m \in Mutators : mpc[m] \in Mutating
    \/ \E u \in Resetters \ {t} : rpc[u] \in Resetting

(* quiet[t]: no other writer has been inside writeSuffix, mutate, drop or *)
(* truncate at any moment since resetter t entered its drop/truncate.     *)
QuietUpdate ==
    quiet' = [t \in Resetters |->
                IF rpc'[t] = "idle" THEN TRUE
                ELSE (IF rpc[t] = "idle" THEN TRUE ELSE quiet[t]) /\ ~(OtherWriterRunning(t))']

(* ------------------- AggregatingOutputStream --------------------------- *)
(* A write that publishes the block at once instead of buffering it.      *)
Write_Publishing(s, shape) ==
    /\ ~aborted
    /\ wpc[s] = "open"
    /\ Len(new_blocks[s]) < MaxBlocks
    /\ Len(offered[s]) < MaxBlocks + MaxRejects
    /\ LET block == OfferedBlock(s, Len(new_blocks[s]) + 1, shape)
       IN  /\ offered' = [offered EXCEPT ![s] = Append(@, block)]
           /\ IF CheckBlock(block)
              THEN /\ new_blocks' = [new_blocks EXCEPT ![s] = Append(@, block)]
                   /\ data' = Append(data, block)
                   /\ total_size_rows' = total_size_rows + BlockRows(block)
                   /\ total_size_bytes' = total_size_bytes + BlockAllocatedBytes(block)
              ELSE UNCHANGED <<new_blocks, store>>
    /\ UNCHANGED <<NDEBUG, aborted, mutex, wpc, inserted_rows, inserted_bytes,
                   w_new_data, mutatorVars, resetVars, scanVars, histVars>>
    /\ QuietUpdate

(* A write that puts the block in the buffer and validates it afterwards. *)
Write_CheckAfterAppend(s, shape) ==
    /\ ~aborted
    /\ wpc[s] = "open"
    /\ Len(new_blocks[s]) < MaxBlocks
    /\ Len(offered[s]) < MaxBlocks + MaxRejects
    /\ LET block == OfferedBlock(s, Len(new_blocks[s]) + 1, shape)
       IN  /\ offered' = [offered EXCEPT ![s] = Append(@, block)]
           /\ new_blocks' = [new_blocks EXCEPT ![s] = Append(@, block)]
    /\ UNCHANGED <<NDEBUG, aborted, store, mutex, wpc, inserted_rows, inserted_bytes,
                   w_new_data, mutatorVars, resetVars, scanVars, histVars>>
    /\ QuietUpdate

(* write, lines 118-122: the block is validated (a mismatch throws and   *)
(* the call ends there), then it joins the session's private buffer.      *)
Write(s, shape) ==
    /\ ~aborted
    /\ wpc[s] = "open"
    /\ Len(new_blocks[s]) < MaxBlocks
    /\ Len(offered[s]) < MaxBlocks + MaxRejects
    /\ LET block == OfferedBlock(s, Len(new_blocks[s]) + 1, shape)
       IN  /\ offered' = [offered EXCEPT ![s] = Append(@, block)]
           /\ IF CheckBlock(block)
              THEN new_blocks' = [new_blocks EXCEPT ![s] = Append(@, block)]
              ELSE UNCHANGED new_blocks
    /\ UNCHANGED <<NDEBUG, aborted, store, mutex, wpc, inserted_rows, inserted_bytes,
                   w_new_data, mutatorVars, resetVars, scanVars, histVars>>
    /\ QuietUpdate

(* The stream is given up without writeSuffix: nothing reads its buffer   *)
(* again.                                                                 *)
Abandon(s) ==
    /\ ~aborted
    /\ wpc[s] = "open"
    /\ wpc' = [wpc EXCEPT ![s] = "abandoned"]
    /\ UNCHANGED <<NDEBUG, aborted, store, mutex, new_blocks, offered, inserted_rows, inserted_bytes,
                   w_new_data, mutatorVars, resetVars, scanVars, histVars>>
    /\ QuietUpdate

(* writeSuffix that goes on without waiting for storage.mutex.            *)
WriteSuffixLock_NoMutex(s) ==
    /\ ~aborted
    /\ wpc[s] = "open"
    /\ mutex' = <<"writer", s>>
    /\ inserted_bytes' = [inserted_bytes EXCEPT ![s] = SumAllocatedBytes(new_blocks[s])]
    /\ inserted_rows' = [inserted_rows EXCEPT ![s] = SumRows(new_blocks[s])]
    /\ wpc' = [wpc EXCEPT ![s] = "locked"]
    /\ serial' = serial \o new_blocks[s]
    /\ UNCHANGED <<NDEBUG, aborted, store, new_blocks, offered, w_new_data, mutatorVars, resetVars,
                   scanVars, published, finalized, m_before, pub_at_read, fin_at_read>>
    /\ QuietUpdate

(* writeSuffix, lines 126-135: sum the buffer, then take storage.mutex.   *)
WriteSuffixLock(s) ==
    /\ ~aborted
    /\ wpc[s] = "open"
    /\ mutex = Free
    /\ mutex' = <<"writer", s>>
    /\ inserted_bytes' = [inserted_bytes EXCEPT ![s] = SumAllocatedBytes(new_blocks[s])]
    /\ inserted_rows' = [inserted_rows EXCEPT ![s] = SumRows(new_blocks[s])]
    /\ wpc' = [wpc EXCEPT ![s] = "locked"]
    /\ serial' = serial \o new_blocks[s]
    /\ UNCHANGED <<NDEBUG, aborted, store, new_blocks, offered, w_new_data, mutatorVars, resetVars,
                   scanVars, published, finalized, m_before, pub_at_read, fin_at_read>>
    /\ QuietUpdate

(* The buffer is put in front of the published blocks.                    *)
WriteSuffixCopy_Prepend(s) ==
    /\ ~aborted
    /\ wpc[s] = "locked"
    /\ w_new_data' = [w_new_data EXCEPT ![s] = new_blocks[s] \o data]
    /\ wpc' = [wpc EXCEPT ![s] = "copied"]
    /\ UNCHANGED <<NDEBUG, aborted, store, mutex, new_blocks, offered, inserted_rows, inserted_bytes,
                   mutatorVars, resetVars, scanVars, histVars>>
    /\ QuietUpdate

(* lines 137-138: copy the published vector and append the buffer.        *)
WriteSuffixCopy(s) ==
    /\ ~aborted
    /\ wpc[s] = "locked"
    /\ w_new_data' = [w_new_data EXCEPT ![s] = data \o new_blocks[s]]
    /\ wpc' = [wpc EXCEPT ![s] = "copied"]
    /\ UNCHANGED <<NDEBUG, aborted, store, mutex, new_blocks, offered, inserted_rows, inserted_bytes,
                   mutatorVars, resetVars, scanVars, histVars>>
    /\ QuietUpdate

(* line 140: storage.data.set(new_data).                                  *)
WriteSuffixSet(s) ==
    /\ ~aborted
    /\ wpc[s] = "copied"
    /\ data' = w_new_data[s]
    /\ wpc' = [wpc EXCEPT ![s] = "set"]
    /\ published' = Append(published, s)
    /\ UNCHANGED <<NDEBUG, aborted, total_size_rows, total_size_bytes, mutex, new_blocks, offered,
                   inserted_rows, inserted_bytes, w_new_data, mutatorVars, resetVars,
                   scanVars, finalized, serial, m_before, pub_at_read, fin_at_read>>
    /\ QuietUpdate

(* The row total is added to the byte counter.                            *)
WriteSuffixAddBytes_Rows(s) ==
    /\ ~aborted
    /\ wpc[s] = "set"
    /\ total_size_bytes' = total_size_bytes + inserted_rows[s]
    /\ wpc' = [wpc EXCEPT ![s] = "added_bytes"]
    /\ UNCHANGED <<NDEBUG, aborted, data, total_size_rows, mutex, new_blocks, offered, inserted_rows,
                   inserted_bytes, w_new_data, mutatorVars, resetVars, scanVars, histVars>>
    /\ QuietUpdate

(* line 141: total_size_bytes.fetch_add(inserted_bytes).                  *)
WriteSuffixAddBytes(s) ==
    /\ ~aborted
    /\ wpc[s] = "set"
    /\ total_size_bytes' = total_size_bytes + inserted_bytes[s]
    /\ wpc' = [wpc EXCEPT ![s] = "added_bytes"]
    /\ UNCHANGED <<NDEBUG, aborted, data, total_size_rows, mutex, new_blocks, offered, inserted_rows,
                   inserted_bytes, w_new_data, mutatorVars, resetVars, scanVars, histVars>>
    /\ QuietUpdate

(* lines 142-143: total_size_rows.fetch_add(inserted_rows), then the      *)
(* lock_guard releases the mutex as writeSuffix returns.                  *)
WriteSuffixAddRows(s) ==
    /\ ~aborted
    /\ wpc[s] = "added_bytes"
    /\ total_size_rows' = total_size_rows + inserted_rows[s]
    /\ mutex' = Free
    /\ wpc' = [wpc EXCEPT ![s] = "done"]
    /\ finalized' = Append(finalized, s)
    /\ UNCHANGED <<NDEBUG, aborted, data, total_size_bytes, new_blocks, offered, inserted_rows,
                   inserted_bytes, w_new_data, mutatorVars, resetVars, scanVars,
                   published, serial, m_before, pub_at_read, fin_at_read>>
    /\ QuietUpdate

(* ------------------------- drop and truncate --------------------------- *)
(* Neither takes storage.mutex: three atomic stores each.                 *)
(* lines 217 and 293: data.set(an empty vector).                          *)
ResetSet(t, kind) ==
    /\ ~aborted
    /\ rpc[t] = "idle"
    /\ data' = <<>>
    /\ rpc' = [rpc EXCEPT ![t] = "set"]
    /\ rkind' = [rkind EXCEPT ![t] = kind]
    /\ UNCHANGED <<NDEBUG, aborted, total_size_rows, total_size_bytes, mutex, writerVars,
                   mutatorVars, scanVars, histVars>>
    /\ QuietUpdate

(* lines 218 and 294: total_size_bytes.store(0).                          *)
ResetStoreBytes(t, kind) ==
    /\ ~aborted
    /\ rpc[t] = "set"
    /\ rkind[t] = kind
    /\ total_size_bytes' = 0
    /\ rpc' = [rpc EXCEPT ![t] = "stored_bytes"]
    /\ UNCHANGED <<NDEBUG, aborted, data, total_size_rows, mutex, writerVars, mutatorVars,
                   rkind, scanVars, histVars>>
    /\ QuietUpdate

(* The row counter is left as it was.                                     *)
ResetStoreRows_Forgotten(t, kind) ==
    /\ ~aborted
    /\ rpc[t] = "stored_bytes"
    /\ rkind[t] = kind
    /\ rpc' = [rpc EXCEPT ![t] = "returned"]
    /\ UNCHANGED <<NDEBUG, aborted, store, mutex, writerVars, mutatorVars,
                   rkind, scanVars, histVars>>
    /\ QuietUpdate

(* lines 219 and 295: total_size_rows.store(0), then the call returns.    *)
ResetStoreRows(t, kind) ==
    /\ ~aborted
    /\ rpc[t] = "stored_bytes"
    /\ rkind[t] = kind
    /\ total_size_rows' = 0
    /\ rpc' = [rpc EXCEPT ![t] = "returned"]
    /\ UNCHANGED <<NDEBUG, aborted, data, total_size_bytes, mutex, writerVars, mutatorVars,
                   rkind, scanVars, histVars>>
    /\ QuietUpdate

DropSet(t) == ResetSet(t, "drop")
DropStoreBytes(t) == ResetStoreBytes(t, "drop")
DropStoreRows(t) == ResetStoreRows(t, "drop")
TruncateSet(t) == ResetSet(t, "truncate")
TruncateStoreBytes(t) == ResetStoreBytes(t, "truncate")
TruncateStoreRows(t) == ResetStoreRows(t, "truncate")

(* ------------------------------ mutate --------------------------------- *)
(* The rewrite pipeline (MutationsInterpreter) scans the table and drains *)
(* into n replacement blocks: whole blocks when it affects all columns,   *)
(* blocks holding only the rewritten column "b" otherwise.                *)
Mutated(col) == [col EXCEPT !.v = 1]

Pipeline(d, all, n) ==
    [i \in 1..n |->
        LET base == IF i <= Len(d) THEN d[i] ELSE InputBlock(0, i, 1)
        IN  [src  |-> <<0, i>>,
             cols |-> [c \in (IF all THEN DOMAIN base.cols ELSE {"b"}) |->
                          Mutated(base.cols[c])]]]

(* An update that leaves every column of old_block as it was.             *)
updateBlockData_Nothing(old_block, new_block) == old_block

(* updateBlockData, lines 222-230: every column of new_block replaces the *)
(* column of that name in old_block.                                      *)
updateBlockData(old_block, new_block) ==
    [old_block EXCEPT !.cols = [c \in DOMAIN old_block.cols |->
                                  IF c \in DOMAIN new_block.cols THEN new_block.cols[c]
                                                                 ELSE old_block.cols[c]]]

(* What the read of *out_it can yield once out_it is at or past out.end() *)
(* and assert() is compiled out: memory that holds no columns, or the     *)
(* remains of a block with a column "b".                                  *)
GarbageBlocks ==
    { [src |-> <<0, 0>>, cols |-> [c \in {} |-> MkColumn(2, 0, 0, 0)]],
      [src |-> <<0, 0>>, cols |-> [c \in {"b"} |-> MkColumn(2, 1, 1, 1)]] }

(* lines 260-272 without the asserts: the loop over the copy of the       *)
(* published blocks, reading garbage where out has no block.              *)
MergeLoop(orig, o, garbage) ==
    [i \in 1..Len(orig) |->
        updateBlockData(orig[i], IF i <= Len(o) THEN o[i] ELSE garbage)]

(* lines 234: mutate takes the mutex for its whole body.                  *)
MutateLock(m) ==
    /\ ~aborted
    /\ mpc[m] = "idle"
    /\ mutex = Free
    /\ mutex' = <<"mutator", m>>
    /\ mpc' = [mpc EXCEPT ![m] = "locked"]
    /\ m_before' = [m_before EXCEPT ![m] = store]
    /\ UNCHANGED <<NDEBUG, aborted, store, writerVars, affects_all, out, m_new_data,
                   m_rows, m_bytes, resetVars, scanVars, published, finalized, serial,
                   pub_at_read, fin_at_read>>
    /\ QuietUpdate

(* lines 238-248: run the pipeline over the table and drain it into out.  *)
MutateExecute(m, all, n) ==
    /\ ~aborted
    /\ mpc[m] = "locked"
    /\ affects_all' = [affects_all EXCEPT ![m] = all]
    /\ out' = [out EXCEPT ![m] = Pipeline(data, all, n)]
    /\ mpc' = [mpc EXCEPT ![m] = "executed"]
    /\ UNCHANGED <<NDEBUG, aborted, store, mutex, writerVars, m_new_data, m_rows, m_bytes,
                   resetVars, scanVars, histVars>>
    /\ QuietUpdate

(* The ways lines 250-275 can end for the copy orig of the published      *)
(* blocks and the replacement o: "ok" with the new blocks, or "abort".    *)
(* With assert() compiled in, a count mismatch aborts (line 267 or 274).  *)
(* With assert() compiled out, a longer o is cut to Len(orig), and a      *)
(* shorter o makes the loop read past out.end(): the process crashes or   *)
(* the loop goes on with whatever the memory holds.                       *)
NoBlock == [src |-> <<0, 0>>, cols |-> [c \in {} |-> MkColumn(2, 0, 0, 0)]]

MergeOutcomes(all, orig, o, ndebug) ==
    IF all
    THEN { [kind |-> "ok", blocks |-> o, garbage |-> NoBlock] }
    ELSE IF Len(o) = Len(orig)
    THEN { [kind |-> "ok", blocks |-> MergeLoop(orig, o, NoBlock), garbage |-> NoBlock] }
    ELSE IF ~ndebug
    THEN { [kind |-> "abort", blocks |-> <<>>, garbage |-> NoBlock] }
    ELSE IF Len(o) > Len(orig)
    THEN { [kind |-> "ok", blocks |-> MergeLoop(orig, o, NoBlock), garbage |-> NoBlock] }
    ELSE { [kind |-> "abort", blocks |-> <<>>, garbage |-> NoBlock] }
           \cup { [kind |-> "ok", blocks |-> MergeLoop(orig, o, g), garbage |-> g] :
                      g \in GarbageBlocks }

(* A merge that updates the published blocks where they are: the blocks  *)
(* before the one the assert stops at are already rewritten.              *)
MutateMerge_InPlace(m) ==
    /\ mpc[m] = "executed"
    /\ ~aborted
    /\ \E r \in MergeOutcomes(affects_all[m], data, out[m], NDEBUG) :
          IF r.kind = "abort"
          THEN /\ aborted' = TRUE
               /\ mpc' = [mpc EXCEPT ![m] = "aborted"]
               /\ data' = [i \in 1..Len(data) |->
                              IF i <= Len(out[m]) THEN updateBlockData(data[i], out[m][i])
                                                  ELSE data[i]]
               /\ UNCHANGED <<m_new_data, m_rows, m_bytes, serial>>
          ELSE /\ m_new_data' = [m_new_data EXCEPT ![m] = r.blocks]
               /\ m_rows' = [m_rows EXCEPT ![m] = SumRows(r.blocks)]
               /\ m_bytes' = [m_bytes EXCEPT ![m] = SumBytes(r.blocks)]
               /\ mpc' = [mpc EXCEPT ![m] = "merged"]
               /\ serial' = IF affects_all[m] THEN out[m]
                            ELSE MergeLoop(serial, out[m], r.garbage)
               /\ UNCHANGED <<aborted, data>>
    /\ UNCHANGED <<NDEBUG, total_size_rows, total_size_bytes, mutex, writerVars,
                   affects_all, out, resetVars, scanVars,
                   published, finalized, m_before, pub_at_read, fin_at_read>>
    /\ QuietUpdate

(* A merge that rewrites the columns inside the published blocks: every   *)
(* snapshot that still holds one of these blocks sees the new column.     *)
MutateMerge_SharedBlocks(m) ==
    /\ mpc[m] = "executed"
    /\ ~aborted
    /\ \E r \in MergeOutcomes(affects_all[m], data, out[m], NDEBUG) :
          IF r.kind = "abort"
          THEN /\ aborted' = TRUE
               /\ mpc' = [mpc EXCEPT ![m] = "aborted"]
               /\ UNCHANGED <<m_new_data, m_rows, m_bytes, serial, current_data>>
          ELSE /\ m_new_data' = [m_new_data EXCEPT ![m] = r.blocks]
               /\ m_rows' = [m_rows EXCEPT ![m] = SumRows(r.blocks)]
               /\ m_bytes' = [m_bytes EXCEPT ![m] = SumBytes(r.blocks)]
               /\ mpc' = [mpc EXCEPT ![m] = "merged"]
               /\ serial' = IF affects_all[m] THEN out[m]
                            ELSE MergeLoop(serial, out[m], r.garbage)
               /\ current_data' =
                     [s \in Scans |->
                        [i \in 1..Len(current_data[s]) |->
                           IF /\ ~affects_all[m]
                              /\ i <= Len(data)
                              /\ i <= Len(out[m])
                              /\ current_data[s][i] = data[i]
                           THEN updateBlockData(current_data[s][i], out[m][i])
                           ELSE current_data[s][i]]]
               /\ UNCHANGED aborted
    /\ UNCHANGED <<NDEBUG, store, mutex, writerVars, affects_all, out, resetVars,
                   spc, size, num_streams, parallel_execution_index, got, empties,
                   requested_streams, initializer_func, given_initializer, calls_log,
                   published, finalized, m_before, pub_at_read, fin_at_read>>
    /\ QuietUpdate

(* lines 250-283: build new_data and sum its rows and bytes.              *)
MutateMerge(m) ==
    /\ mpc[m] = "executed"
    /\ ~aborted
    /\ \E r \in MergeOutcomes(affects_all[m], data, out[m], NDEBUG) :
          IF r.kind = "abort"
          THEN /\ aborted' = TRUE
               /\ mpc' = [mpc EXCEPT ![m] = "aborted"]
               /\ UNCHANGED <<m_new_data, m_rows, m_bytes, serial>>
          ELSE /\ m_new_data' = [m_new_data EXCEPT ![m] = r.blocks]
               /\ m_rows' = [m_rows EXCEPT ![m] = SumRows(r.blocks)]
               /\ m_bytes' = [m_bytes EXCEPT ![m] = SumBytes(r.blocks)]
               /\ mpc' = [mpc EXCEPT ![m] = "merged"]
               /\ serial' = IF affects_all[m] THEN out[m]
                            ELSE MergeLoop(serial, out[m], r.garbage)
               /\ UNCHANGED aborted
    /\ UNCHANGED <<NDEBUG, store, mutex, writerVars, affects_all, out, resetVars, scanVars,
                   published, finalized, m_before, pub_at_read, fin_at_read>>
    /\ QuietUpdate

(* line 284: total_size_bytes.store(rows).                                *)
MutateStoreBytes(m) ==
    /\ ~aborted
    /\ mpc[m] = "merged"
    /\ total_size_bytes' = m_rows[m]
    /\ mpc' = [mpc EXCEPT ![m] = "stored_bytes"]
    /\ UNCHANGED <<NDEBUG, aborted, data, total_size_rows, mutex, writerVars, affects_all,
                   out, m_new_data, m_rows, m_bytes, resetVars, scanVars, histVars>>
    /\ QuietUpdate

(* line 285: total_size_rows.store(bytes).                                *)
MutateStoreRows(m) ==
    /\ ~aborted
    /\ mpc[m] = "stored_bytes"
    /\ total_size_rows' = m_bytes[m]
    /\ mpc' = [mpc EXCEPT ![m] = "stored_rows"]
    /\ UNCHANGED <<NDEBUG, aborted, data, total_size_bytes, mutex, writerVars, affects_all,
                   out, m_new_data, m_rows, m_bytes, resetVars, scanVars, histVars>>
    /\ QuietUpdate

(* lines 286-287: data.set(new_data); the lock_guard releases the mutex.  *)
MutateSet(m) ==
    /\ ~aborted
    /\ mpc[m] = "stored_rows"
    /\ data' = m_new_data[m]
    /\ mutex' = Free
    /\ mpc' = [mpc EXCEPT ![m] = "done"]
    /\ UNCHANGED <<NDEBUG, aborted, total_size_rows, total_size_bytes, writerVars,
                   affects_all, out, m_new_data, m_rows, m_bytes, resetVars, scanVars,
                   histVars>>
    /\ QuietUpdate

(* ------------------------ totalRows, totalBytes ------------------------ *)
(* lines 298-308: relaxed loads of the two counters, without the mutex.   *)
totalRows == total_size_rows
totalBytes == total_size_bytes

(* ------------------------- read and MemorySource ----------------------- *)
(* The requested number of sources is used as it is.                      *)
ClampStreams_Unclamped(P, n) == P

(* lines 193-194: if (num_streams > size) num_streams = size.              *)
ClampStreams(P, n) == IF P > n THEN n ELSE P

(* A read that waits for storage.mutex before it takes the snapshot.      *)
Read_Locking(s, P) ==
    /\ ~aborted
    /\ spc[s] = "none"
    /\ mutex = Free
    /\ current_data' = [current_data EXCEPT ![s] = data]
    /\ size' = [size EXCEPT ![s] = Len(data)]
    /\ requested_streams' = [requested_streams EXCEPT ![s] = P]
    /\ num_streams' = [num_streams EXCEPT ![s] = ClampStreams(P, Len(data))]
    /\ parallel_execution_index' = [parallel_execution_index EXCEPT ![s] = 0]
    /\ spc' = [spc EXCEPT ![s] = "open"]
    /\ got' = [got EXCEPT ![s] = [i \in 1..Len(data) |-> <<>>]]
    /\ pub_at_read' = [pub_at_read EXCEPT ![s] = published]
    /\ fin_at_read' = [fin_at_read EXCEPT ![s] = finalized]
    /\ UNCHANGED <<NDEBUG, aborted, store, mutex, writerVars, mutatorVars, resetVars,
                   empties, initializer_func, given_initializer, calls_log,
                   published, finalized, serial, m_before>>
    /\ QuietUpdate

(* read, lines 190-205: one snapshot, one shared index, min(P, N) sources. *)
Read(s, P) ==
    /\ ~aborted
    /\ spc[s] = "none"
    /\ current_data' = [current_data EXCEPT ![s] = data]
    /\ size' = [size EXCEPT ![s] = Len(data)]
    /\ requested_streams' = [requested_streams EXCEPT ![s] = P]
    /\ num_streams' = [num_streams EXCEPT ![s] = ClampStreams(P, Len(data))]
    /\ parallel_execution_index' = [parallel_execution_index EXCEPT ![s] = 0]
    /\ spc' = [spc EXCEPT ![s] = "open"]
    /\ got' = [got EXCEPT ![s] = [i \in 1..Len(data) |-> <<>>]]
    /\ pub_at_read' = [pub_at_read EXCEPT ![s] = published]
    /\ fin_at_read' = [fin_at_read EXCEPT ![s] = finalized]
    /\ UNCHANGED <<NDEBUG, aborted, store, mutex, writerVars, mutatorVars, resetVars,
                   empties, initializer_func, given_initializer, calls_log,
                   published, finalized, serial, m_before>>
    /\ QuietUpdate

(* A source that looks at the table's published blocks on every call.    *)
SourceData_Live(s) == data

(* MemorySource::data, lines 43 and 99: the snapshot handed over by read. *)
SourceData(s) == current_data[s]

(* A pre-increment: the caller gets the value after the increment.        *)
getAndIncrementExecutionIndex_PreIncrement(index) ==
    [result |-> index + 1, stored |-> index + 1]

(* lines 85-90: the post-increment of the shared atomic index returns    *)
(* the old value and stores the next one, in one atomic step.             *)
getAndIncrementExecutionIndex(index) == [result |-> index, stored |-> index + 1]

(* The chunk generate() builds from a block: the requested columns (all   *)
(* of them here) and the block's row count.                               *)
ChunkOf(src) == [src |-> src.src, columns |-> src.cols, rows |-> BlockRows(src)]

(* A source that keeps its callable after running it.                     *)
RunInitializer_NotCleared(func) == [ran |-> func, seen |-> "before", func |-> func]

(* generate, lines 54-58: a source that holds an initializer runs it and  *)
(* clears it, before anything else in the call; seen tells where in the   *)
(* call the callable ran.                                                 *)
RunInitializer(func) == [ran |-> func, seen |-> "before", func |-> FALSE]

(* What one generate() call of a source did: whether the callable ran,    *)
(* whether that was before the index was taken, and the index taken.      *)
CallRecord(initialized, fetched) ==
    [ran |-> initialized.ran, seen |-> initialized.seen, claimed |-> fetched.result]

(* The MemorySource constructor, lines 34-47, called n times with the     *)
(* published blocks, one new shared index and an initializer.             *)
Construct(s, n) ==
    /\ ~aborted
    /\ spc[s] = "none"
    /\ current_data' = [current_data EXCEPT ![s] = data]
    /\ size' = [size EXCEPT ![s] = Len(data)]
    /\ requested_streams' = [requested_streams EXCEPT ![s] = n]
    /\ num_streams' = [num_streams EXCEPT ![s] = n]
    /\ parallel_execution_index' = [parallel_execution_index EXCEPT ![s] = 0]
    /\ initializer_func' = [initializer_func EXCEPT ![s] = [w \in Streams |-> w <= n]]
    /\ given_initializer' = [given_initializer EXCEPT ![s] = TRUE]
    /\ spc' = [spc EXCEPT ![s] = "open"]
    /\ got' = [got EXCEPT ![s] = [i \in 1..Len(data) |-> <<>>]]
    /\ pub_at_read' = [pub_at_read EXCEPT ![s] = published]
    /\ fin_at_read' = [fin_at_read EXCEPT ![s] = finalized]
    /\ UNCHANGED <<NDEBUG, aborted, store, mutex, writerVars, mutatorVars, resetVars,
                   empties, calls_log, published, finalized, serial, m_before>>
    /\ QuietUpdate

(* A source that rewinds the shared index when it finds it at the end.   *)
Generate_Rewind(s, w) ==
    /\ ~aborted
    /\ spc[s] = "open"
    /\ w <= num_streams[s]
    /\ empties[s][w] <= MaxExtraCalls
    /\ LET initialized == RunInitializer(initializer_func[s][w])
           fetched == getAndIncrementExecutionIndex(parallel_execution_index[s])
           current_index == fetched.result
       IN  /\ initializer_func' = [initializer_func EXCEPT ![s][w] = initialized.func]
           /\ calls_log' = [calls_log EXCEPT ![s][w] =
                               IF given_initializer[s]
                               THEN Append(@, CallRecord(initialized, fetched))
                               ELSE @]
           /\ IF current_index >= Len(SourceData(s))
              THEN /\ parallel_execution_index' =
                          [parallel_execution_index EXCEPT ![s] = 0]
                   /\ empties' = [empties EXCEPT ![s][w] = @ + 1]
                   /\ UNCHANGED got
              ELSE /\ parallel_execution_index' =
                          [parallel_execution_index EXCEPT ![s] = fetched.stored]
                   /\ got' = [got EXCEPT ![s][current_index + 1] =
                                 Append(@, ChunkOf(SourceData(s)[current_index + 1]))]
                   /\ UNCHANGED empties
    /\ UNCHANGED <<NDEBUG, aborted, store, mutex, writerVars, mutatorVars, resetVars,
                   spc, current_data, size, num_streams, requested_streams,
                   given_initializer, histVars>>
    /\ QuietUpdate

(* generate, lines 52-82, of source w of scan s: take the next index from *)
(* the shared counter, return nothing at or past the end of the snapshot. *)
(* got[s][i + 1] lists the chunks the calls that took index i returned;   *)
(* empties[s][w] counts the empty results of source w.                    *)
Generate(s, w) ==
    /\ ~aborted
    /\ spc[s] = "open"
    /\ w <= num_streams[s]
    /\ empties[s][w] <= MaxExtraCalls
    /\ LET initialized == RunInitializer(initializer_func[s][w])
           fetched == getAndIncrementExecutionIndex(parallel_execution_index[s])
           current_index == fetched.result
       IN  /\ initializer_func' = [initializer_func EXCEPT ![s][w] = initialized.func]
           /\ calls_log' = [calls_log EXCEPT ![s][w] =
                               IF given_initializer[s]
                               THEN Append(@, CallRecord(initialized, fetched))
                               ELSE @]
           /\ parallel_execution_index' =
                  [parallel_execution_index EXCEPT ![s] = fetched.stored]
           /\ IF current_index >= Len(SourceData(s))
              THEN /\ empties' = [empties EXCEPT ![s][w] = @ + 1]
                   /\ UNCHANGED got
              ELSE /\ got' = [got EXCEPT ![s][current_index + 1] =
                                 Append(@, ChunkOf(SourceData(s)[current_index + 1]))]
                   /\ UNCHANGED empties
    /\ UNCHANGED <<NDEBUG, aborted, store, mutex, writerVars, mutatorVars, resetVars,
                   spc, current_data, size, num_streams, requested_streams,
                   given_initializer, histVars>>
    /\ QuietUpdate

(* --------------------------- specification ----------------------------- *)
WriterStep(W, shapes) ==
    \/ \E s \in W : \E shape \in shapes[s] : Write(s, shape)
    \/ \E s \in W : Abandon(s)
    \/ \E s \in W : WriteSuffixLock(s)
    \/ \E s \in W : WriteSuffixCopy(s)
    \/ \E s \in W : WriteSuffixSet(s)
    \/ \E s \in W : WriteSuffixAddBytes(s)
    \/ \E s \in W : WriteSuffixAddRows(s)

MutatorStep ==
    \/ \E m \in Mutators : MutateLock(m)
    \/ \E m \in Mutators, all \in BOOLEAN, n \in 0..MaxOut : MutateExecute(m, all, n)
    \/ \E m \in Mutators : MutateMerge(m)
    \/ \E m \in Mutators : MutateStoreBytes(m)
    \/ \E m \in Mutators : MutateStoreRows(m)
    \/ \E m \in Mutators : MutateSet(m)

ResetStep(R) ==
    \/ \E t \in R : DropSet(t)
    \/ \E t \in R : DropStoreBytes(t)
    \/ \E t \in R : DropStoreRows(t)
    \/ \E t \in R : TruncateSet(t)
    \/ \E t \in R : TruncateStoreBytes(t)
    \/ \E t \in R : TruncateStoreRows(t)

ScanStep ==
    \/ \E s \in Scans, P \in 1..MaxStreams : Read(s, P)
    \/ \E s \in Scans, w \in Streams : Generate(s, w)

(* One insert session, one mutation, one drop or truncate and one scan.   *)
Next ==
    \/ WriterStep({1}, OneShape)
    \/ MutatorStep
    \/ ResetStep({1})
    \/ ScanStep

Spec == Init /\ [][Next]_vars

(* Insert sessions and a scan.                                            *)
NextInsert ==
    \/ WriterStep(Writers, OwnShape)
    \/ ScanStep

SpecInsert == Init /\ [][NextInsert]_vars

(* Insert sessions alone, with blocks of either shape.                    *)
NextWrite ==
    \/ WriterStep(Writers, AnyShape)

SpecWrite == Init /\ [][NextWrite]_vars

(* Insert sessions whose write() is also handed mismatched blocks.        *)
NextValidate ==
    \/ WriterStep(Writers, MixedShape)

SpecValidate == Init /\ [][NextValidate]_vars

(* Insert sessions and a mutation.                                        *)
NextSerial ==
    \/ WriterStep(Writers, OneShape)
    \/ MutatorStep

SpecSerial == Init /\ [][NextSerial]_vars

(* One insert session and a mutation.                                     *)
NextMutate ==
    \/ WriterStep({1}, AnyShape)
    \/ MutatorStep

SpecMutate == Init /\ [][NextMutate]_vars

(* One insert session, a drop or truncate.                                *)
NextReset ==
    \/ WriterStep({1}, AnyShape)
    \/ ResetStep(Resetters)

SpecReset == Init /\ [][NextReset]_vars

(* One insert session and sources constructed with an initializer.        *)
NextInitializer ==
    \/ WriterStep({1}, OneShape)
    \/ \E s \in Scans, n \in 1..MaxStreams : Construct(s, n)
    \/ \E s \in Scans, w \in Streams : Generate(s, w)

SpecInitializer == Init /\ [][NextInitializer]_vars

(* One insert session, a mutation and a scan whose sources are scheduled  *)
(* fairly: the executor calls generate() of each source again and again   *)
(* until it returns empty, so a source that can be called is called.      *)
NextFair ==
    \/ WriterStep({1}, OneShape)
    \/ MutatorStep
    \/ ScanStep

SpecFair ==
    /\ Init
    /\ [][NextFair]_vars
    /\ \A s \in Scans : \A w \in Streams : WF_vars(Generate(s, w))

(* ------------------------------ properties ----------------------------- *)
ScanDone(s) ==
    /\ spc[s] = "open"
    /\ \A w \in 1..num_streams[s] : empties[s][w] >= 1

RECURSIVE CountChunks(_)
CountChunks(lists) ==
    IF lists = <<>> THEN 0 ELSE Len(Head(lists)) + CountChunks(Tail(lists))

Delivered(s) == CountChunks(got[s])

(* C1: in a scan over N batches with min(P, N) sources, no batch index is *)
(* returned by more than one generate() call, whatever the interleaving,  *)
(* and once every source has returned empty each index in [0, N) has been *)
(* returned exactly once: none twice, none skipped.                       *)
C1_EachBatchExactlyOnce ==
    \A s \in Scans :
        spc[s] = "open" =>
            /\ \A i \in 1..Len(current_data[s]) : Len(got[s][i]) <= 1
            /\ ScanDone(s) => \A i \in 1..Len(current_data[s]) : Len(got[s][i]) = 1

C1_Witness ==
    \E s \in Scans :
        /\ ScanDone(s)
        /\ num_streams[s] = 2
        /\ Len(current_data[s]) = 2
        /\ \A w \in 1..2 : empties[s][w] = 1

(* C2: a scan that captured N batches delivers exactly those N batches:   *)
(* its count stays N and every chunk it returns is the chunk of the       *)
(* captured batch at that index, whatever an append, mutation, drop or    *)
(* truncate publishes after the capture.                                  *)
C2_SnapshotPinned ==
    \A s \in Scans :
        spc[s] = "open" =>
            /\ Len(current_data[s]) = size[s]
            /\ \A i \in 1..size[s] :
                  \A k \in 1..Len(got[s][i]) : got[s][i][k] = ChunkOf(current_data[s][i])
            /\ ScanDone(s) => Delivered(s) = size[s]

C2_Witness ==
    \E s \in Scans :
        /\ ScanDone(s)
        /\ size[s] = 2
        /\ Delivered(s) = 2
        /\ Len(data) # 2
        /\ \E m \in Mutators : mpc[m] = "done"
        /\ \E t \in Resetters : rpc[t] = "returned"

RECURSIVE SessionBlocks(_)
SessionBlocks(order) ==
    IF order = <<>> THEN <<>>
    ELSE new_blocks[Head(order)] \o SessionBlocks(Tail(order))

IsPrefix(p, q) == Len(p) <= Len(q) /\ SubSeq(q, 1, Len(p)) = p

C4_BufferingLeavesStoreAlone ==
    [][\A s \in Writers :
          ( /\ <<wpc[s], new_blocks[s]>>' # <<wpc[s], new_blocks[s]>>
            /\ wpc'[s] \in {"open", "abandoned", "locked", "copied"} )
          => UNCHANGED store]_vars

C4_Witness ==
    \E s \in Writers :
        /\ wpc[s] = "abandoned"
        /\ Len(new_blocks[s]) = 2
        /\ \E u \in Writers \ {s} : wpc[u] = "copied" /\ Len(new_blocks[u]) = 1
        /\ data = <<>>
        /\ total_size_rows = 0
        /\ total_size_bytes = 0

(* C8: with insert sessions only, starting from the empty table, whenever *)
(* no writeSuffix is in progress total_size_rows is the sum of rows() and *)
(* total_size_bytes the sum of allocatedBytes() over the published        *)
(* blocks.                                                                *)
C8_InsertCounters ==
    (\A s \in Writers : wpc[s] \notin Finalizing) =>
        /\ totalRows = SumRows(data)
        /\ totalBytes = SumAllocatedBytes(data)

C8_Witness ==
    /\ \A s \in Writers : wpc[s] = "done"
    /\ Len(data) = 4
    /\ total_size_rows = 6
    /\ total_size_bytes = 22

Tags(blocks) == [i \in 1..Len(blocks) |-> blocks[i].src]

NoFullRewrite == \A m \in Mutators : mpc[m] \in {"idle", "locked"} \/ ~affects_all[m]

(* C5: with concurrent insert sessions and a mutation, whenever the mutex *)
(* is free the published blocks are what the operations give when applied *)
(* one at a time in the order they took the mutex; unless a mutation      *)
(* rewrote all columns, the batches of every published session are there  *)
(* exactly once, contiguous, in the session's order: no append is lost.   *)
C5_SerializedByMutex ==
    mutex = Free =>
        /\ data = serial
        /\ NoFullRewrite => Tags(data) = Tags(SessionBlocks(published))

C5_Witness ==
    /\ mutex = Free
    /\ published = <<2, 1>>
    /\ \A s \in Writers : wpc[s] = "done" /\ Len(new_blocks[s]) = 1
    /\ \E m \in Mutators : mpc[m] = "done" /\ ~affects_all[m] /\ Len(out[m]) = 1
    /\ Len(data) = 2
    /\ data[1].cols["b"].v = 1
    /\ data[2].cols["b"].v = 0

(* C6: a mutation that rewrites only some columns and whose pipeline      *)
(* returns a number of blocks different from the number published never   *)
(* completes.                                                             *)
C6_PartialRewriteCountMismatchFails ==
    \A m \in Mutators :
        (mpc[m] = "done" /\ ~affects_all[m]) => Len(out[m]) = Len(m_new_data[m])

(* C7: when a partial-column mutation stops on a block count mismatch,    *)
(* the published blocks and both counters are what they were when the     *)
(* mutation started.                                                      *)
C7_FailedMutationLeavesStore ==
    \A m \in Mutators : mpc[m] = "aborted" => store = m_before[m]

C7_Witness ==
    \E m \in Mutators :
        /\ mpc[m] = "aborted"
        /\ ~affects_all[m]
        /\ Len(data) = 2
        /\ Len(out[m]) = 1
        /\ total_size_rows > 0

(* C9: when a mutation has completed and its blocks are the published     *)
(* ones, total_size_rows is the sum of their rows() and total_size_bytes   *)
(* the sum of their bytes().                                              *)
C9_MutationCounters ==
    \A m \in Mutators :
        (mpc[m] = "done" /\ data = m_new_data[m] /\ mutex = Free) =>
            /\ totalRows = SumRows(data)
            /\ totalBytes = SumBytes(data)

(* C10: when drop() or truncate() has returned and no other writer ran    *)
(* from its start until now, the published vector is empty, both counters *)
(* are 0, and read() creates no source for any requested parallelism.     *)
C10_ResetEmptiesStore ==
    \A t \in Resetters :
        (rpc[t] = "returned" /\ quiet[t]) =>
            /\ data = <<>>
            /\ totalRows = 0
            /\ totalBytes = 0
            /\ \A P \in 1..MaxStreams : ClampStreams(P, Len(data)) = 0

C10_Witness ==
    \E t \in Resetters :
        /\ rpc[t] = "returned"
        /\ quiet[t]
        /\ rkind[t] = "truncate"
        /\ wpc[1] = "done"
        /\ Len(new_blocks[1]) = 2

(* C11: every step that replaces storage.data (the data.set of            *)
(* writeSuffix, of mutate, of drop and of truncate) is taken by the       *)
(* thread that holds storage.mutex at that moment.                        *)
C11_PublishHoldsMutex ==
    [][ /\ \A s \in Writers :
              (wpc[s] = "copied" /\ wpc'[s] = "set") => mutex = <<"writer", s>>
        /\ \A m \in Mutators :
              (mpc[m] = "stored_rows" /\ mpc'[m] = "done") => mutex = <<"mutator", m>>
        /\ \A t \in Resetters :
              (rpc[t] = "idle" /\ rpc'[t] = "set") => mutex = <<"resetter", t>> ]_vars

(* C12: once the shared index of a scan has reached its N, or one of its  *)
(* sources has returned empty, every later generate() of any source of    *)
(* the scan returns empty: it delivers no chunk, counts one more empty    *)
(* result and leaves the index at or past N.                              *)
C12_EndOfStreamIsFinal ==
    [][\A s \in Scans :
          ( /\ spc[s] = "open"
            /\ \/ parallel_execution_index[s] >= size[s]
               \/ \E w \in 1..num_streams[s] : empties[s][w] >= 1 )
          => /\ got'[s] = got[s]
             /\ parallel_execution_index'[s] >= size[s]
             /\ parallel_execution_index'[s] # parallel_execution_index[s]
                   => \E w \in 1..num_streams[s] :
                          empties'[s] = [empties[s] EXCEPT ![w] = @ + 1]]_vars

C12_Witness ==
    \E s \in Scans :
        /\ spc[s] = "open"
        /\ size[s] = 2
        /\ num_streams[s] = 2
        /\ Delivered(s) = 2
        /\ empties[s][1] = MaxExtraCalls + 1
        /\ empties[s][2] = 1
        /\ parallel_execution_index[s] = size[s] + MaxExtraCalls + 2

RECURSIVE EmptyResults(_, _)
EmptyResults(s, n) == IF n = 0 THEN 0 ELSE empties[s][n] + EmptyResults(s, n - 1)

(* C13: read() asked for P sources over a snapshot of N batches creates   *)
(* P sources when P <= N and N otherwise, none when N = 0; all of them    *)
(* read the one snapshot and take their indexes from the one counter of   *)
(* the scan, which starts at 0.                                           *)
C13_SourcesAreMinOfRequestAndSize ==
    \A s \in Scans :
        spc[s] = "open" =>
            /\ requested_streams[s] <= size[s] => num_streams[s] = requested_streams[s]
            /\ requested_streams[s] >= size[s] => num_streams[s] = size[s]
            /\ size[s] = 0 => num_streams[s] = 0
            /\ size[s] = Len(current_data[s])
            /\ \A w \in Streams : w > num_streams[s] => empties[s][w] = 0
            /\ parallel_execution_index[s] =
                   Delivered(s) + EmptyResults(s, MaxStreams)

C13_Witness ==
    \E s \in Scans :
        /\ spc[s] = "open"
        /\ requested_streams[s] = 2
        /\ size[s] = 1
        /\ num_streams[s] = 1
        /\ Delivered(s) = 1
        /\ empties[s][1] = 1

RECURSIVE AcceptedBlocks(_)
AcceptedBlocks(order) ==
    IF order = <<>> THEN <<>>
    ELSE SelectSeq(offered[Head(order)], CheckBlock) \o AcceptedBlocks(Tail(order))

(* C14: a write() handed a block that does not match the table's          *)
(* structure leaves the session buffer as it was: the buffer is always    *)
(* the matching blocks offered so far, in order.  The writeSuffix of the  *)
(* session counts the rows and bytes of exactly these, and whenever no    *)
(* writeSuffix is in progress the published blocks are the matching       *)
(* blocks of the published sessions and the counters are their sums.      *)
C14_RejectedBlockNeverBuffered ==
    /\ \A s \in Writers :
          /\ new_blocks[s] = SelectSeq(offered[s], CheckBlock)
          /\ wpc[s] \in Finalizing \cup {"done"} =>
                /\ inserted_rows[s] = SumRows(SelectSeq(offered[s], CheckBlock))
                /\ inserted_bytes[s] = SumAllocatedBytes(SelectSeq(offered[s], CheckBlock))
    /\ mutex = Free =>
          /\ data = AcceptedBlocks(published)
          /\ totalRows = SumRows(AcceptedBlocks(published))
          /\ totalBytes = SumAllocatedBytes(AcceptedBlocks(published))

C14_Witness ==
    \E s \in Writers :
        /\ wpc[s] = "done"
        /\ Len(offered[s]) = 3
        /\ ~CheckBlock(offered[s][2])
        /\ Len(new_blocks[s]) = 2
        /\ Len(data) = 2
        /\ totalRows = 2

(* C15: no reader step waits for storage.mutex.  While the process runs,  *)
(* read() can be taken in every state where the scan has not started, and *)
(* generate() in every state where its source still has calls to make,    *)
(* whoever holds the mutex; the pipeline's scan inside mutate() can be    *)
(* taken while mutate() itself holds the mutex.  totalRows and totalBytes *)
(* are loads of the counters with no step that could wait.                *)
C15_ReadersNeverBlock ==
    ~aborted =>
        /\ \A s \in Scans :
              spc[s] = "none" => \A P \in 1..MaxStreams : ENABLED Read(s, P)
        /\ \A s \in Scans : \A w \in Streams :
              (spc[s] = "open" /\ w <= num_streams[s] /\ empties[s][w] <= MaxExtraCalls)
                  => ENABLED Generate(s, w)
        /\ \A m \in Mutators :
              mpc[m] = "locked" =>
                  ENABLED (\E all \in BOOLEAN, n \in 0..MaxOut : MutateExecute(m, all, n))

C15_Witness ==
    \E s \in Scans :
        /\ mutex = <<"writer", 1>>
        /\ wpc[1] = "added_bytes"
        /\ pub_at_read[s] = <<1>>
        /\ fin_at_read[s] = <<>>
        /\ ScanDone(s)
        /\ Delivered(s) = 2

(* C16: once a scan holds its snapshot, no step of an append, of a        *)
(* mutation (rewriting all columns or only some), of a drop or of a       *)
(* truncate changes the snapshot or its length, and every chunk a later   *)
(* generate() adds is the chunk of the batch as it was captured: a scan   *)
(* started before a partial-column mutation delivers the old columns.     *)
C16_SnapshotNeverModified ==
    [][\A s \in Scans :
          spc[s] = "open" =>
              /\ current_data'[s] = current_data[s]
              /\ size'[s] = size[s]
              /\ \A i \in 1..size[s] :
                    got'[s][i] # got[s][i] =>
                        got'[s][i] = Append(got[s][i], ChunkOf(current_data[s][i]))]_vars

C16_Witness ==
    \E s \in Scans : \E m \in Mutators :
        /\ mpc[m] = "done"
        /\ ~affects_all[m]
        /\ Len(data) = 1
        /\ data[1].cols["b"].v = 1
        /\ ScanDone(s)
        /\ size[s] = 1
        /\ current_data[s][1].cols["b"].v = 0
        /\ got[s][1] = << ChunkOf(current_data[s][1]) >>

(* The blocks a partial-column merge owes: as many as orig, block i with  *)
(* the replacement's column wherever the replacement names one and the    *)
(* original's column elsewhere.                                           *)
ExpectedMerge(orig, o) ==
    [i \in 1..Len(orig) |->
        [src  |-> orig[i].src,
         cols |-> [c \in DOMAIN orig[i].cols |->
                     IF c \in DOMAIN o[i].cols THEN o[i].cols[c] ELSE orig[i].cols[c]]]]

C19_ScanTerminates ==
    \A s \in Scans :
        (spc[s] = "open") ~> (ScanDone(s) /\ Delivered(s) = size[s])

(* C20: when one drop() or truncate() and the writeSuffix of one insert   *)
(* session have both returned, nothing else having written, the table is  *)
(* in one of the two states their serial orders give: empty with both     *)
(* counters 0, or exactly the session's batches with the counters their   *)
(* sums.                                                                  *)
C20_ResetAndFinalizeAreSerial ==
    \A t \in Resetters : \A s \in Writers :
        ( /\ rpc[t] = "returned"
          /\ wpc[s] = "done"
          /\ \A u \in Writers \ {s} : wpc[u] \in {"open", "abandoned"}
          /\ \A u \in Resetters \ {t} : rpc[u] = "idle"
          /\ \A m \in Mutators : mpc[m] = "idle" )
        => \/ store = << <<>>, 0, 0 >>
           \/ store = << new_blocks[s], SumRows(new_blocks[s]),
                         SumAllocatedBytes(new_blocks[s]) >>

====
